---- MODULE Spec2Model ----
(***************************************************************************)
(* Model of research_agent.py: the Streamlit research workflow that runs   *)
(* a Triage (planner) agent, polls the collected facts 15 times, and then  *)
(* runs the Editor agent, with the fallbacks of run_research and of the    *)
(* start-button handler.                                                   *)
(*                                                                         *)
(* Spec         the whole script: button click, run_research, handler.     *)
(* SpecWatcher  the polling loop of run_research against a store that      *)
(*              save_important_fact grows between polls.                   *)
(* SpecFacts    two invocations of save_important_fact, step by step,      *)
(*              interleaved with the polling loop's reads.                 *)
(***************************************************************************)
EXTENDS Integers, Sequences, FiniteSets, TLC

VARIABLES
    pc,                  \* position of the script
    user_topic,          \* st.text_input value the run was started with
    collected_facts,     \* st.session_state.collected_facts
    research_done,       \* st.session_state.research_done
    report_result,       \* st.session_state.report_result
    agent,               \* agent currently running inside a Runner.run call
    triage_result,       \* result of the first Runner.run
    research_plan,       \* local research_plan of run_research
    i,                   \* loop variable of the polling loop
    previous_fact_count, \* local previous_fact_count
    notifications,       \* renderings of fact_placeholder, one per growth
    reads,               \* len(collected_facts) as read at each cycle
    editor_input,        \* argument of the second Runner.run
    ran,                 \* agents that have run in this invocation, in order
    trail,               \* statuses this invocation has passed through
    result_writes,       \* assignments to report_result in this invocation
    session_facts,       \* facts recorded since this invocation started
    runs,                \* invocations started so far
    now,                 \* clock read by datetime.now()
    rec,                 \* per caller: position inside save_important_fact
    raised               \* which Runner.run raised in this invocation, if any

vars == <<pc, user_topic, collected_facts, research_done, report_result, agent,
          triage_result, research_plan, i, previous_fact_count, notifications,
          reads, editor_input, ran, trail, result_writes, session_facts, runs,
          now, rec, raised>>

-----------------------------------------------------------------------------
(* Bounds of the model *)

MaxRuns == 2
MaxFacts == 2
MaxItems == 2
MaxGrowth == 3

(* range(15) of the polling loop *)
NumPolls == 15

Topics == {"cruises", "espresso"}
FactArgs == {[fact |-> "A", source |-> "None"], [fact |-> "B", source |-> "url"]}
Errors == {"timeout"}

None == [kind |-> "None"]
Text(s) == [kind |-> "Text", text |-> s]

-----------------------------------------------------------------------------
(* Strings *)

RECURSIVE JoinStr(_, _)
JoinStr(sep, parts) ==
    IF parts = <<>> THEN ""
    ELSE IF Len(parts) = 1 THEN Head(parts)
    ELSE Head(parts) \o sep \o JoinStr(sep, Tail(parts))

(* Python truthiness of a report_result: None and "" are falsy *)
Truthy(r) == r.kind # "None" /\ (r.kind = "Text" => r.text # "")

-----------------------------------------------------------------------------
(* Data *)

ResearchPlan(t, qs, fs) ==
    [kind |-> "ResearchPlan", topic |-> t, search_queries |-> qs, focus_areas |-> fs]

ResearchReport(t) ==
    [kind |-> "ResearchReport", title |-> "Report on " \o t,
     outline |-> <<"Intro">>, report |-> "body", sources |-> <<"url">>,
     word_count |-> 1]

(* items of RunResult.new_items: with or without a content attribute *)
ItemKinds ==
    {[has_content |-> FALSE, content |-> ""],
     [has_content |-> TRUE, content |-> ""],
     [has_content |-> TRUE, content |-> "p"],
     [has_content |-> TRUE, content |-> "q"]}

ItemSeqs == UNION {[1..n -> ItemKinds] : n \in 0..MaxItems}

Lists == {<<>>, <<"q1", "q2">>, <<"q1", "q2", "q3">>}

(* what the first Runner.run can return, by the agent that ends the run *)
FinalOutputs(a, t) ==
    CASE a = "Triage" -> {ResearchPlan(t, l, l) : l \in Lists}
      [] a = "Research" -> {Text("summary of " \o t)}
      [] a = "Editor" -> {ResearchReport(t)}
      [] OTHER -> {}

TriagePrompt(t) ==
    "Research this topic thoroughly: " \o t
        \o ". This research will be used to create a comprehensive research report."

-----------------------------------------------------------------------------
(* save_important_fact *)

BuildFact(fact, source, ts) ==
    [fact |-> fact,
     source |-> IF source = "None" \/ source = "" THEN "Not specified" ELSE source,
     timestamp |-> ts]

(* a fault of the store: assignment of a fresh list in place of append *)
ListAppendOverwrite(list, x) == <<x>>

(* a fault of the store: the new fact is inserted at the front *)
ListInsertFront(list, x) == <<x>> \o list

ListAppend(list, x) == Append(list, x)

-----------------------------------------------------------------------------
(* run_research *)

(* a fault of the fallback: the topic is left out of the query and the focus area *)
FallbackPlanNoTopic(topic) ==
    [kind |-> "dict", topic |-> topic,
     search_queries |-> <<"Researching ">>,
     focus_areas |-> <<"General information about ">>]

FallbackPlan(topic) ==
    [kind |-> "dict", topic |-> topic,
     search_queries |-> <<"Researching " \o topic>>,
     focus_areas |-> <<"General information about " \o topic>>]

(* a fault of the check: a plan with fewer than 3 queries is rejected *)
AdoptPlanEnforcesBound(final_output, topic) ==
    IF final_output.kind = "ResearchPlan" /\ Len(final_output.search_queries) >= 3
    THEN final_output
    ELSE FallbackPlan(topic)

AdoptPlan(final_output, topic) ==
    IF final_output.kind = "ResearchPlan" THEN final_output ELSE FallbackPlan(topic)

(* a fault of the reset: the previous facts are kept *)
ResetFactsKeep == collected_facts

ResetFacts == <<>>
ResetResult == None

HasContentAttr(m) == m.has_content
ContentTruthy(m) == m.content # ""

(* a fault of the except branch: the filter "if m.content" is left out *)
RawContentUnfiltered(new_items) ==
    LET messages == SelectSeq(new_items, HasContentAttr)
    IN  IF messages # <<>>
        THEN Text(JoinStr("\n\n", [k \in 1..Len(messages) |-> messages[k].content]))
        ELSE None

(* lines 286-290: the value the except branch stores, None when it stores nothing *)
RawContent(new_items) ==
    LET messages == SelectSeq(new_items, HasContentAttr)
        kept == SelectSeq(messages, ContentTruthy)
    IN  IF messages # <<>>
        THEN Text(JoinStr("\n\n", [k \in 1..Len(kept) |-> kept[k].content]))
        ELSE None

(* a fault of the handler: the error detail is left out of the message *)
ApologyMessageNoDetail(topic, e) ==
    "# Research on " \o topic
        \o "\n\nUnfortunately, an error occurred during the research process. "
        \o "Please try again later or with a different topic."

ApologyMessage(topic, e) ==
    "# Research on " \o topic
        \o "\n\nUnfortunately, an error occurred during the research process. "
        \o "Please try again later or with a different topic.\n\nError details: " \o e

(* the session status the script's position stands for: run_research has
   no status field, its stages are lines 207-213 (Planning), 236-253
   (Researching), 256-263 (Editing), line 296 (Complete) and the handler's
   lines 303-307 (Failed) *)
StatusOf(p, r) ==
    CASE p = "idle" -> "NotStarted"
      [] p = "triage" -> "Planning"
      [] p = "watch" -> "Researching"
      [] p = "editor" -> "Editing"
      [] p = "done" -> IF r = "planner" THEN "Failed" ELSE "Complete"

(* a fault of the control flow: run_research returns once the plan is shown *)
AfterTriageReturnHalts == "done"

(* a fault of the control flow: the polling loop is skipped *)
AfterTriageReturnSkipsLoop == "editor"

(* after the plan is adopted run_research falls into the polling loop *)
AfterTriageReturn == "watch"

Idle == [p \in {"A", "B"} |-> [at |-> "idle", built |-> None]]

Init ==
    /\ pc = "idle"
    /\ user_topic = ""
    /\ collected_facts = <<>>
    /\ research_done = FALSE
    /\ report_result = None
    /\ agent = "none"
    /\ triage_result = None
    /\ research_plan = None
    /\ i = 0
    /\ previous_fact_count = 0
    /\ notifications = <<>>
    /\ reads = <<>>
    /\ editor_input = None
    /\ ran = <<>>
    /\ trail = <<StatusOf("idle", "none")>>
    /\ result_writes = 0
    /\ session_facts = <<>>
    /\ runs = 0
    /\ now = 0
    /\ rec = Idle
    /\ raised = "none"

(* start_button: asyncio.run(run_research(user_topic)) up to the first await *)
StartResearch(t) ==
    /\ pc \in {"idle", "done"}
    /\ runs < MaxRuns
    /\ pc' = "triage"
    /\ user_topic' = t
    /\ collected_facts' = ResetFacts
    /\ research_done' = FALSE
    /\ report_result' = ResetResult
    /\ agent' = "Triage"
    /\ triage_result' = None
    /\ research_plan' = None
    /\ i' = 0
    /\ previous_fact_count' = 0
    /\ notifications' = <<>>
    /\ reads' = <<>>
    /\ editor_input' = None
    /\ ran' = <<"Triage">>
    /\ trail' = <<StatusOf("idle", "none"), StatusOf("triage", "none")>>
    /\ result_writes' = 0
    /\ session_facts' = <<>>
    /\ runs' = runs + 1
    /\ now' = now + 1
    /\ raised' = "none"
    /\ UNCHANGED rec

(* the Triage Agent hands off to the Research Agent: handoffs, line 149 *)
HandoffResearch ==
    /\ pc = "triage"
    /\ agent = "Triage"
    /\ agent' = "Research"
    /\ ran' = Append(ran, "Research")
    /\ UNCHANGED <<pc, user_topic, collected_facts, research_done, report_result,
                   triage_result, research_plan, i, previous_fact_count,
                   notifications, reads, editor_input, trail, result_writes,
                   session_facts, runs, now, rec, raised>>

(* the Triage Agent hands off to the Editor Agent: handoffs, line 150 *)
HandoffEditor ==
    /\ pc = "triage"
    /\ agent = "Triage"
    /\ agent' = "Editor"
    /\ ran' = Append(ran, "Editor")
    /\ UNCHANGED <<pc, user_topic, collected_facts, research_done, report_result,
                   triage_result, research_plan, i, previous_fact_count,
                   notifications, reads, editor_input, trail, result_writes,
                   session_facts, runs, now, rec, raised>>

(* a fault of the agent definitions: the Editor Agent is given the tool too *)
HasRecordToolEditorToo(a) == a \in {"Research", "Editor"}

(* tools=[WebSearchTool(), save_important_fact] of research_agent; the
   Triage Agent has no tools and the Editor Agent has tools=[] *)
HasRecordTool(a) == a = "Research"

(* the agent running inside a Runner.run call calls its tool save_important_fact *)
SaveFact(a) ==
    /\ pc \in {"triage", "editor"}
    /\ HasRecordTool(agent)
    /\ Len(collected_facts) < MaxFacts
    /\ collected_facts' = ListAppend(collected_facts, BuildFact(a.fact, a.source, now))
    /\ session_facts' = Append(session_facts, BuildFact(a.fact, a.source, now))
    /\ UNCHANGED <<pc, user_topic, research_done, report_result, agent,
                   triage_result, research_plan, i, previous_fact_count,
                   notifications, reads, editor_input, ran, trail, result_writes,
                   runs, now, rec, raised>>

(* the first Runner.run returns; lines 215-244 follow without an await *)
TriageReturn(out, items) ==
    /\ pc = "triage"
    /\ out \in FinalOutputs(agent, user_topic)
    /\ triage_result' = [kind |-> "RunResult", final_output |-> out, new_items |-> items]
    /\ research_plan' = AdoptPlan(out, user_topic)
    /\ previous_fact_count' = 0
    /\ i' = 0
    /\ agent' = "none"
    /\ pc' = AfterTriageReturn
    /\ trail' = Append(trail, StatusOf(AfterTriageReturn, "none"))
    /\ UNCHANGED <<user_topic, collected_facts, research_done, report_result,
                   notifications, reads, editor_input, ran, result_writes,
                   session_facts, runs, now, rec, raised>>

(* the first Runner.run raises: nothing in run_research catches it, the
   handler of lines 303-307 does *)
TriageRaise(e) ==
    /\ pc = "triage"
    /\ report_result' = Text(ApologyMessage(user_topic, e))
    /\ result_writes' = result_writes + 1
    /\ research_done' = TRUE
    /\ agent' = "none"
    /\ raised' = "planner"
    /\ pc' = "done"
    /\ trail' = Append(trail, StatusOf("done", "planner"))
    /\ UNCHANGED <<user_topic, collected_facts, triage_result, research_plan, i,
                   previous_fact_count, notifications, reads, editor_input, ran,
                   session_facts, runs, now, rec>>

(* a fault of the loop bound: one cycle short *)
LoopContinuesOneShort(n) == n < NumPolls - 1

(* for i in range(15) *)
LoopContinues(n) == n < NumPolls

(* a fault of the comparison: >= in place of > *)
GrewOrEqual(current_facts, previous) == current_facts >= previous

(* line 247 *)
Grew(current_facts, previous) == current_facts > previous

(* lines 248-251: what one rendering of fact_placeholder shows *)
Rendered(facts) ==
    [k \in 1..Len(facts) |-> [fact |-> facts[k].fact, source |-> facts[k].source]]

(* one cycle of the polling loop, lines 245-253 *)
WatchPoll ==
    /\ pc = "watch"
    /\ LoopContinues(i)
    /\ LET current_facts == Len(collected_facts)
       IN  /\ reads' = Append(reads, current_facts)
           /\ IF Grew(current_facts, previous_fact_count)
              THEN /\ notifications' =
                        Append(notifications,
                               [cycle |-> i, shown |-> Rendered(collected_facts),
                                call_in_flight |-> agent # "none"])
                   /\ previous_fact_count' = current_facts
              ELSE UNCHANGED <<notifications, previous_fact_count>>
    /\ i' = i + 1
    /\ UNCHANGED <<pc, user_topic, collected_facts, research_done, report_result,
                   agent, triage_result, research_plan, editor_input, ran, trail,
                   result_writes, session_facts, runs, now, rec, raised>>

(* triage_result.to_input_list(): the original input followed by the new items *)
ToInputList(result, topic) ==
    [kind |-> "InputList", input |-> TriagePrompt(topic),
     items |-> result.new_items, final_output |-> result.final_output]

(* the loop is over (i = 15): lines 256-263 issue the second Runner.run *)
EditorStart ==
    /\ pc = "watch"
    /\ ~LoopContinues(i)
    /\ pc' = "editor"
    /\ agent' = "Editor"
    /\ editor_input' = ToInputList(triage_result, user_topic)
    /\ ran' = Append(ran, "Editor")
    /\ trail' = Append(trail, StatusOf("editor", "none"))
    /\ UNCHANGED <<user_topic, collected_facts, research_done, report_result,
                   triage_result, research_plan, i, previous_fact_count,
                   notifications, reads, result_writes, session_facts, runs, now,
                   rec, raised>>

(* the second Runner.run returns: lines 266-281, then line 296 *)
EditorReturn(r) ==
    /\ pc = "editor"
    /\ report_result' = r
    /\ result_writes' = result_writes + 1
    /\ research_done' = TRUE
    /\ agent' = "none"
    /\ pc' = "done"
    /\ trail' = Append(trail, StatusOf("done", "none"))
    /\ UNCHANGED <<user_topic, collected_facts, triage_result, research_plan, i,
                   previous_fact_count, notifications, reads, editor_input, ran,
                   session_facts, runs, now, rec, raised>>

(* the second Runner.run raises: the except branch, lines 283-294, then 296 *)
EditorRaise(e) ==
    /\ pc = "editor"
    /\ LET raw == RawContent(triage_result.new_items)
       IN  IF raw # None
           THEN /\ report_result' = raw
                /\ result_writes' = result_writes + 1
           ELSE UNCHANGED <<report_result, result_writes>>
    /\ research_done' = TRUE
    /\ agent' = "none"
    /\ raised' = "editor"
    /\ pc' = "done"
    /\ trail' = Append(trail, StatusOf("done", "editor"))
    /\ UNCHANGED <<user_topic, collected_facts, triage_result, research_plan, i,
                   previous_fact_count, notifications, reads, editor_input, ran,
                   session_facts, runs, now, rec>>

Next ==
    \/ \E t \in Topics : StartResearch(t)
    \/ HandoffResearch
    \/ HandoffEditor
    \/ \E a \in FactArgs : SaveFact(a)
    \/ \E out \in FinalOutputs(agent, user_topic), items \in ItemSeqs :
            TriageReturn(out, items)
    \/ \E e \in Errors : TriageRaise(e)
    \/ WatchPoll
    \/ EditorStart
    \/ EditorReturn(ResearchReport(user_topic))
    \/ \E e \in Errors : EditorRaise(e)

Spec == Init /\ [][Next]_vars

(* The script under its scheduling: asyncio.sleep(1) returns, so the loop
   advances and the second call is issued; and every Runner.run eventually
   returns or raises. *)
FirstCallEnds ==
    \/ \E out \in FinalOutputs(agent, user_topic), items \in ItemSeqs :
            TriageReturn(out, items)
    \/ \E e \in Errors : TriageRaise(e)

SecondCallEnds ==
    \/ EditorReturn(ResearchReport(user_topic))
    \/ \E e \in Errors : EditorRaise(e)

FairSpec ==
    /\ Spec
    /\ WF_vars(WatchPoll)
    /\ WF_vars(EditorStart)
    /\ WF_vars(FirstCallEnds)
    /\ WF_vars(SecondCallEnds)

-----------------------------------------------------------------------------
(* The polling loop against a store that grows while it polls: the state   *)
(* run_research is in when the loop starts, with the Research Agent's tool *)
(* being called between polls.                                             *)

InitWatcher ==
    /\ pc = "watch"
    /\ user_topic = "cruises"
    /\ collected_facts = <<>>
    /\ research_done = FALSE
    /\ report_result = None
    /\ agent = "Research"
    /\ triage_result = [kind |-> "RunResult",
                        final_output |-> ResearchPlan("cruises", <<"q1", "q2">>, <<"q1", "q2">>),
                        new_items |-> <<>>]
    /\ research_plan = ResearchPlan("cruises", <<"q1", "q2">>, <<"q1", "q2">>)
    /\ i = 0
    /\ previous_fact_count = 0
    /\ notifications = <<>>
    /\ reads = <<>>
    /\ editor_input = None
    /\ ran = <<"Triage", "Research">>
    /\ trail = <<"NotStarted", "Planning", "Researching">>
    /\ result_writes = 0
    /\ session_facts = <<>>
    /\ runs = 1
    /\ now = 1
    /\ rec = Idle
    /\ raised = "none"

(* save_important_fact, whole, called while the loop is running *)
WatcherRecord(a) ==
    /\ pc = "watch"
    /\ agent = "Research"
    /\ Len(collected_facts) < MaxGrowth
    /\ collected_facts' = ListAppend(collected_facts, BuildFact(a.fact, a.source, now))
    /\ session_facts' = Append(session_facts, BuildFact(a.fact, a.source, now))
    /\ UNCHANGED <<pc, user_topic, research_done, report_result, agent,
                   triage_result, research_plan, i, previous_fact_count,
                   notifications, reads, editor_input, ran, trail, result_writes,
                   runs, now, rec, raised>>

NextWatcher ==
    \/ WatchPoll
    \/ \E a \in FactArgs : WatcherRecord(a)

SpecWatcher == InitWatcher /\ [][NextWatcher]_vars

-----------------------------------------------------------------------------
(* save_important_fact step by step: two calls, record("A") and            *)
(* record("B"), interleaved with each other and with the loop's reads.     *)

Callers == {"A", "B"}

(* lines 76-80: the dict literal is evaluated before append is called *)
RecordBuild(p) ==
    /\ pc = "watch"
    /\ rec[p].at = "idle"
    /\ rec' = [rec EXCEPT ![p] = [at |-> "built", built |-> BuildFact(p, "None", now)]]
    /\ UNCHANGED <<pc, user_topic, collected_facts, research_done, report_result,
                   agent, triage_result, research_plan, i, previous_fact_count,
                   notifications, reads, editor_input, ran, trail, result_writes,
                   session_facts, runs, now, raised>>

(* line 76: list.append on the list held by st.session_state *)
RecordAppend(p) ==
    /\ pc = "watch"
    /\ rec[p].at = "built"
    /\ collected_facts' = ListAppend(collected_facts, rec[p].built)
    /\ session_facts' = Append(session_facts, rec[p].built)
    /\ rec' = [rec EXCEPT ![p].at = "returned"]
    /\ UNCHANGED <<pc, user_topic, research_done, report_result, agent,
                   triage_result, research_plan, i, previous_fact_count,
                   notifications, reads, editor_input, ran, trail, result_writes,
                   runs, now, raised>>

NextFacts ==
    \/ \E p \in Callers : RecordBuild(p)
    \/ \E p \in Callers : RecordAppend(p)
    \/ WatchPoll

SpecFacts == InitWatcher /\ [][NextFacts]_vars

-----------------------------------------------------------------------------
(* Properties *)

FirstCallReturned == triage_result.kind = "RunResult"
FullOrder == <<"NotStarted", "Planning", "Researching", "Editing", "Complete">>

(* C1: every invocation that has set research_done leaves a non-empty
   result in the session (a report, degraded text or the apology message). *)
C1_AlwaysSomeResult == research_done => Truthy(report_result)

(* C2, as the spec words it: when the first completion call returns
   something that is not a ResearchPlan, the adopted plan is
   {topic: T, search_queries: ["research " + T],
    focus_areas: ["general information about " + T]}. *)
C2_SpecFallbackStrings ==
    (FirstCallReturned /\ triage_result.final_output.kind # "ResearchPlan") =>
        /\ research_plan.topic = user_topic
        /\ research_plan.search_queries = <<"research " \o user_topic>>
        /\ research_plan.focus_areas = <<"general information about " \o user_topic>>

(* C2, amended: in that case the adopted plan is
   {topic: T, search_queries: ["Researching " + T],
    focus_areas: ["General information about " + T]}. *)
C2_FallbackPlan ==
    (FirstCallReturned /\ triage_result.final_output.kind # "ResearchPlan") =>
        /\ research_plan.topic = user_topic
        /\ research_plan.search_queries = <<"Researching " \o user_topic>>
        /\ research_plan.focus_areas = <<"General information about " \o user_topic>>

C2_Witness ==
    /\ pc = "watch"
    /\ triage_result.final_output.kind = "Text"
    /\ research_plan.topic = "espresso"

(* the non-empty contents of the transcript's items, in transcript order *)
C3_Prose ==
    LET kept == SelectSeq(triage_result.new_items,
                          LAMBDA m : m.has_content /\ m.content # "")
    IN  [k \in 1..Len(kept) |-> kept[k].content]

RECURSIVE C3_Concat(_)
C3_Concat(parts) == IF parts = <<>> THEN "" ELSE Head(parts) \o C3_Concat(Tail(parts))

RECURSIVE C3_BlankLineJoin(_)
C3_BlankLineJoin(parts) ==
    IF Len(parts) = 1 THEN parts[1]
    ELSE parts[1] \o "\n\n" \o C3_BlankLineJoin(Tail(parts))

C3_EditorRaisedWithProse == pc = "done" /\ raised = "editor" /\ C3_Prose # <<>>

(* C3, as the spec words it: when the Editor call raises and the transcript
   holds recoverable prose, the session ends Complete and its result is
   exactly the concatenation of the recoverable items, in transcript order. *)
C3_SpecConcatenation ==
    C3_EditorRaisedWithProse =>
        /\ research_done
        /\ trail[Len(trail)] = "Complete"
        /\ report_result = Text(C3_Concat(C3_Prose))

(* C3, amended: in that case the session ends Complete and its result is
   the recoverable items in transcript order, joined with a blank line
   ("\n\n") between consecutive items. *)
C3_JoinedProse ==
    C3_EditorRaisedWithProse =>
        /\ research_done
        /\ trail[Len(trail)] = "Complete"
        /\ report_result = Text(C3_BlankLineJoin(C3_Prose))

C3_Witness ==
    /\ C3_EditorRaisedWithProse
    /\ C3_Prose = <<"q", "p">>
    /\ report_result = Text("q\n\np")

(* C4: within one invocation the status only moves forward through
   NotStarted, Planning, Researching, Editing, Complete, Failed being the
   only other exit; when no completion call raises, the finished invocation
   has passed through all five, in that order, each exactly once. *)
C4_StatusOrder ==
    /\ \/ \E n \in 1..5 : trail = SubSeq(FullOrder, 1, n)
       \/ \E n \in 1..4 : trail = SubSeq(FullOrder, 1, n) \o <<"Failed">>
    /\ trail[Len(trail)] = StatusOf(pc, raised)
    /\ (pc = "done" /\ raised = "none") => trail = FullOrder

C4_Witness ==
    /\ pc = "done"
    /\ raised = "none"
    /\ report_result.kind = "ResearchReport"
    /\ trail = FullOrder

(* C5: the Editor Agent never runs before the first completion call (the
   only call in which the Research Agent can run) has returned, by
   whichever way the Editor is reached. *)
C5_EditorAfterResearcher == agent = "Editor" => FirstCallReturned

(* C6: the watcher runs concurrently with the completion call that records
   the facts: facts the watcher surfaces are surfaced while that call is
   still in flight, before its final text is available. *)
C6_FactsSurfacedBeforeCallReturns ==
    notifications # <<>> => \E k \in DOMAIN notifications : notifications[k].call_in_flight

(* C7: the watcher does not gate the Researching -> Editing transition:
   once the first completion call has returned, the Editor call can be
   issued however many polling cycles remain. *)
C7_WatcherDoesNotGateEditor == (pc = "watch" /\ FirstCallReturned) => ENABLED EditorStart

(* sizes read over 15 cycles by a store that grows 0 -> 1 at cycle 3 and
   1 -> 3 at cycle 9, cycles counted from 1 *)
C8_Scenario == [c \in 1..NumPolls |-> IF c < 3 THEN 0 ELSE IF c < 9 THEN 1 ELSE 3]

(* the number of facts shown by the last notification before cycle c, 0 if none *)
C8_ShownBefore(c) ==
    LET earlier == {k \in DOMAIN notifications : notifications[k].cycle + 1 < c}
    IN  IF earlier = {} THEN 0
        ELSE Len(notifications[CHOOSE k \in earlier : \A j \in earlier : j <= k].shown)

(* C8: a growth notification is emitted at a cycle if and only if the size
   read at that cycle is larger than the size at the previous notification
   (initially 0), and it shows every fact in the store at that moment; so a
   store that grows 0 -> 1 at cycle 3 and 1 -> 3 at cycle 9 over 15 cycles
   gives exactly two notifications, at cycles 3 and 9. *)
C8_GrowthNotifications ==
    /\ Len(reads) = i
    /\ \A c \in 1..Len(reads) :
          (\E k \in DOMAIN notifications : notifications[k].cycle + 1 = c)
              <=> reads[c] > C8_ShownBefore(c)
    /\ \A k \in DOMAIN notifications :
          LET n == notifications[k]
          IN  /\ k > 1 => notifications[k - 1].cycle < n.cycle
              /\ Len(n.shown) = reads[n.cycle + 1]
              /\ \A j \in 1..Len(n.shown) :
                    /\ n.shown[j].fact = collected_facts[j].fact
                    /\ n.shown[j].source = collected_facts[j].source
    /\ (i = NumPolls /\ reads = C8_Scenario) =>
          /\ Len(notifications) = 2
          /\ notifications[1].cycle + 1 = 3
          /\ notifications[2].cycle + 1 = 9

C8_Witness ==
    /\ i = NumPolls
    /\ reads = C8_Scenario
    /\ Len(notifications) = 2
    /\ Len(notifications[2].shown) = 3

(* C9: for concurrent record("A"), record("B") and reads by the watcher,
   once both records have returned the store holds both facts, whatever
   the interleaving, and no fact in the store or shown by a read lacks a
   field. *)
C9_NoLostUpdateNoPartialFact ==
    /\ (\A p \in Callers : rec[p].at = "returned") =>
          /\ Len(collected_facts) = 2
          /\ \A p \in Callers : \E k \in 1..2 : collected_facts[k].fact = p
    /\ \A k \in DOMAIN collected_facts :
          DOMAIN collected_facts[k] = {"fact", "source", "timestamp"}
    /\ \A k \in DOMAIN notifications : \A j \in DOMAIN notifications[k].shown :
          DOMAIN notifications[k].shown[j] = {"fact", "source"}

C9_Witness ==
    /\ \A p \in Callers : rec[p].at = "returned"
    /\ collected_facts[1].fact = "B"
    /\ collected_facts[2].fact = "A"
    /\ Len(notifications) = 2
    /\ Len(notifications[1].shown) = 1

(* C10: from the start of an invocation onward the store holds only the
   facts recorded during that invocation, and the result is absent until
   that invocation itself sets it, also when the invocation fails. *)
C10_NewTopicDiscards ==
    pc # "idle" =>
        /\ collected_facts = session_facts
        /\ \A k \in DOMAIN collected_facts : collected_facts[k].timestamp = now
        /\ result_writes = 0 => report_result = None

C10_Witness ==
    /\ runs = 2
    /\ pc = "done"
    /\ raised = "planner"
    /\ Len(collected_facts) = 1

(* C11: in every invocation the result is set exactly once, at or before
   the invocation becomes terminal: it is never still unset when the
   invocation is terminal and never assigned a second time. *)
C11_ResultSetExactlyOnce ==
    /\ result_writes <= 1
    /\ pc = "done" => (result_writes = 1 /\ report_result # None)

EditorRuns == Cardinality({k \in DOMAIN ran : ran[k] = "Editor"})

(* C12: within one invocation the Editor Agent is run at most once,
   counting the Triage Agent's handoff to it and the explicit Editor call. *)
C12_EditorAtMostOnce == EditorRuns <= 1

(* C13: if the first completion call raises, the invocation ends terminal
   (research_done) with a result that is a message embedding the topic and
   the error detail, and neither the Researching stage (the polling loop)
   nor the Editing stage (the Editor call) is run in that invocation. *)
C13_PlannerRaiseEndsWithApology ==
    (pc = "done" /\ raised = "planner") =>
        /\ research_done
        /\ \E e \in Errors :
              report_result =
                  Text("# Research on " \o user_topic
                       \o "\n\nUnfortunately, an error occurred during the research process. "
                       \o "Please try again later or with a different topic.\n\nError details: "
                       \o e)
        /\ reads = <<>> /\ i = 0 /\ notifications = <<>>
        /\ editor_input = None
        /\ \A k \in DOMAIN trail : trail[k] \notin {"Researching", "Editing"}
        /\ triage_result = None

C13_Witness ==
    /\ pc = "done"
    /\ raised = "planner"
    /\ user_topic = "espresso"
    /\ research_done

(* C14: a planning failure never halts the workflow: whenever the first
   completion call returns, with a ResearchPlan or with any other output,
   the workflow goes through the polling loop and issues the Editor call. *)
C14_PlanningNeverHalts ==
    /\ (FirstCallReturned /\ triage_result.final_output.kind = "ResearchPlan"
            /\ editor_input = None)
          ~> (pc = "editor" /\ Len(reads) = 15)
    /\ (FirstCallReturned /\ triage_result.final_output.kind # "ResearchPlan"
            /\ editor_input = None)
          ~> (pc = "editor" /\ Len(reads) = 15)

C14_Witness ==
    /\ pc = "editor"
    /\ triage_result.final_output.kind = "Text"
    /\ research_plan.kind = "dict"
    /\ Len(reads) = 15

(* C15: the plan adopted at the end of Planning (the Planner's plan, or the
   fallback plan) is the plan the later stages consume: the input handed to
   the Editor call contains it. *)
C15_EditorInputHoldsAdoptedPlan ==
    editor_input.kind = "InputList" => editor_input.final_output = research_plan

(* C16: the 3-5 bound on search_queries and focus_areas is advisory: every
   ResearchPlan the first call returns, whatever the lengths of its lists,
   is adopted unchanged, without a raise and without the fallback plan. *)
C16_AnyPlanLengthAccepted ==
    (FirstCallReturned /\ triage_result.final_output.kind = "ResearchPlan") =>
        /\ research_plan = triage_result.final_output
        /\ research_plan.kind = "ResearchPlan"
        /\ raised # "planner"
        /\ trail[3] = "Researching"

C16_Witness ==
    /\ pc = "watch"
    /\ triage_result.final_output.kind = "ResearchPlan"
    /\ Len(research_plan.search_queries) = 2
    /\ Len(research_plan.focus_areas) = 2

(* C17: the store is append-only within an invocation: each record call
   increases its size by exactly 1 by adding the new fact at the end and
   leaves every stored fact unchanged and in place; between two resets no
   step changes or removes a stored fact. *)
C17_AppendOnly ==
    [][/\ session_facts' # session_facts /\ runs' = runs =>
            /\ Len(collected_facts') = Len(collected_facts) + 1
            /\ SubSeq(collected_facts', 1, Len(collected_facts)) = collected_facts
            /\ collected_facts'[Len(collected_facts')]
                   = session_facts'[Len(session_facts')]
       /\ runs' = runs =>
            /\ Len(collected_facts') >= Len(collected_facts)
            /\ SubSeq(collected_facts', 1, Len(collected_facts)) = collected_facts
       /\ runs' # runs => collected_facts' = <<>>]_vars

C17_Witness ==
    /\ Len(collected_facts) = 2
    /\ collected_facts[1].fact = "A"
    /\ collected_facts[2].fact = "B"
    /\ collected_facts[1].source = "Not specified"

(* C18: every invocation terminates with research_done set, on the normal
   path and on every exception path, given that every completion call
   returns or raises; the loop performs exactly 15 polls when the first call
   returned, never more; research_done is false from the start of an
   invocation until it terminates. *)
C18_TerminatesAfter15Polls ==
    /\ [](/\ pc \in {"triage", "watch", "editor"} => ~research_done
          /\ pc = "done" => research_done
          /\ Len(reads) = i /\ i <= 15
          /\ (pc = "editor" \/ (pc = "done" /\ raised # "planner")) => Len(reads) = 15
          /\ pc = "triage" => reads = <<>>)
    /\ (pc = "triage") ~> (pc = "done" /\ research_done)

C18_Witness ==
    /\ pc = "done"
    /\ research_done
    /\ raised = "editor"
    /\ Len(reads) = 15

(* C19: every fact of an invocation is recorded before the first poll: the
   store does not change from the first poll to the end of the invocation,
   and the loop emits at most one notification, on its first cycle. *)
C19_FactsPrecedeFirstPoll ==
    /\ \A c \in DOMAIN reads : reads[c] = Len(collected_facts)
    /\ Len(notifications) <= 1
    /\ notifications # <<>> =>
          /\ notifications[1].cycle = 0
          /\ ~notifications[1].call_in_flight
          /\ Len(notifications[1].shown) = Len(collected_facts)
    /\ (reads # <<>> /\ collected_facts # <<>>) => Len(notifications) = 1

C19_Witness ==
    /\ pc = "done"
    /\ raised = "none"
    /\ Len(collected_facts) = 2
    /\ Len(notifications) = 1
    /\ Len(reads) = 15
====
